---- MODULE Spec2Model ----
(***************************************************************************)
(* IEC PAS 63343 ABB sentence generation (iec_pas_63343/sentences.py).     *)
(*                                                                         *)
(* Text is modelled as a sequence of ASCII character codes, a BitStream    *)
(* as a sequence of bits (0/1), an ABBSentence object as a record with the *)
(* fields set by ABBSentence.__init__.                                     *)
(***************************************************************************)
EXTENDS Integers, Sequences, FiniteSets, TLC

\* ------------------------------------------------------------------------
\* Bounds of the model
\* ------------------------------------------------------------------------
\* Payload bit lengths are taken around 0, 1, .., MaxChunks full chunks of
\* armoured text (a full chunk is 6 * 42 bits), MaxDelta bits either side.
MaxChunks == 2
MaxDelta == 3
\* Number of multi-sentence messages after which the callers stop.
MaxMulti == 11
\* Number of generate_abb calls made by the concurrent callers.
MaxConcCalls == 4

\* ------------------------------------------------------------------------
\* Program constants
\* ------------------------------------------------------------------------
max_payload_char == 42

\* Size of the Sequential ID space: "% 10".
SeqIdMod == 10

\* The value "" given as source_id (sentences.py line 116 compares
\* source_id with ""); any other source_id is an integer.
EmptySourceId == -1

\* "AI", the default of every talker_id parameter.
DefaultTalkerId == <<65, 73>>

\* "ABB"
formatter_code == <<65, 66, 66>>

\* "", the default of asm_id.
DefaultAsmId == <<>>

\* ------------------------------------------------------------------------
\* Helpers: Python built-ins used by the module
\* ------------------------------------------------------------------------
Min(a, b) == IF a < b THEN a ELSE b

\* math.ceil(a / b) for integers a >= 0, b > 0.
ceil(a, b) == (a + b - 1) \div b

\* s[a:b] for 0 <= a <= b (Python slicing clamps at the end of s).
Slice(s, a, b) == SubSeq(s, a + 1, Min(b, Len(s)))

\* BitStream(n): n zero bits.
BitStream(n) == [i \in 1..n |-> 0]

RECURSIVE DecDigits(_)
\* The decimal digits of n >= 0 as character codes.
DecDigits(n) ==
    IF n < 10 THEN <<48 + n>>
    ELSE DecDigits(n \div 10) \o <<48 + (n % 10)>>

\* "{:d}".format(n) and str(n)
FmtD(n) == IF n < 0 THEN <<45>> \o DecDigits(-n) ELSE DecDigits(n)

\* "{:02d}".format(n): zero-padded to a width of two characters.
Fmt02d(n) ==
    IF n < 0 THEN FmtD(n)
    ELSE IF n < 10 THEN <<48>> \o DecDigits(n)
    ELSE DecDigits(n)

HexDigit(d) == IF d < 10 THEN 48 + d ELSE 55 + d

RECURSIVE HexDigits(_)
HexDigits(n) ==
    IF n < 16 THEN <<HexDigit(n)>>
    ELSE HexDigits(n \div 16) \o <<HexDigit(n % 16)>>

\* "{:>02X}".format(n), n >= 0
Fmt02X(n) == IF n < 16 THEN <<48>> \o HexDigits(n) ELSE HexDigits(n)

\* Bit b of the XOR of the character codes s[from], .., s[Len(s)]: the
\* parity of the number of codes that have bit b set.
XorBit(s, from, b) ==
    Cardinality({i \in from..Len(s) : (s[i] \div (2 ^ b)) % 2 = 1}) % 2

\* iec_61162.part_1.sentences.iec_checksum: XOR of the character codes of
\* the sentence after its leading "!".
iec_checksum(s) ==
    XorBit(s, 2, 0) + 2 * XorBit(s, 2, 1) + 4 * XorBit(s, 2, 2)
      + 8 * XorBit(s, 2, 3) + 16 * XorBit(s, 2, 4) + 32 * XorBit(s, 2, 5)
      + 64 * XorBit(s, 2, 6) + 128 * XorBit(s, 2, 7)

\* The value of the six bits bs[6k+1 .. 6k+6], most significant first.
SixBitValue(bs, k) ==
    32 * bs[6 * k + 1] + 16 * bs[6 * k + 2] + 8 * bs[6 * k + 3]
      + 4 * bs[6 * k + 4] + 2 * bs[6 * k + 5] + bs[6 * k + 6]

\* The IEC 61162-1 six-bit to eight-bit character table.
SixToEight(v) == IF v < 40 THEN v + 48 ELSE v + 56

\* iec_61162.part_1.sentences.iec_ascii_6b_to_8b: one character per six bits.
iec_ascii_6b_to_8b(bs) ==
    [k \in 1..(Len(bs) \div 6) |-> SixToEight(SixBitValue(bs, k - 1))]

\* ------------------------------------------------------------------------
\* class ABBSentence
\* ------------------------------------------------------------------------
\* ABBSentence.__init__: the fields are stored as given, unchecked.
ABBSentence(n_sentences, i_sentence, sequential_id, source_id, channel, transmission_format, payload, n_fill_bits, talker_id, asm_id) ==
    [n_sentences |-> n_sentences,
     i_sentence |-> i_sentence,
     sequential_id |-> sequential_id,
     source_id |-> source_id,
     channel |-> channel,
     transmission_format |-> transmission_format,
     payload |-> payload,
     n_fill_bits |-> n_fill_bits,
     talker_id |-> talker_id,
     asm_id |-> asm_id]

Comma == <<44>>

\* The text of the source_id field (line 116).
SourceIdStr(source_id) ==
    IF source_id = EmptySourceId THEN <<>> ELSE FmtD(source_id)

\* ABBSentence.string, up to the checksum.
SentenceBody(self) ==
    <<33>> \o self.talker_id \o formatter_code
      \o Comma \o Fmt02d(self.n_sentences)
      \o Comma \o Fmt02d(self.i_sentence)
      \o Comma \o FmtD(self.sequential_id)
      \o Comma \o SourceIdStr(self.source_id)
      \o Comma \o FmtD(self.channel)
      \o Comma \o self.asm_id
      \o Comma \o FmtD(self.transmission_format)
      \o Comma \o self.payload
      \o Comma \o FmtD(self.n_fill_bits)

\* ABBSentence.string: body, "*", checksum, CR LF.  No field is checked.
string(self) ==
    LET s == SentenceBody(self)
    IN  s \o <<42>> \o Fmt02X(iec_checksum(s)) \o <<13, 10>>

\* ------------------------------------------------------------------------
\* Inputs
\* ------------------------------------------------------------------------
\* Bit i (1-based) of BitStream("0x123456789ABCDEF" * 15) continued
\* periodically: the sample payload of the module's demo (line 317).
DemoBit(i) ==
    LET digit == (((i - 1) \div 4) % 15) + 1
        shift == 3 - ((i - 1) % 4)
    IN  (digit \div (2 ^ shift)) % 2

\* The first n bits of the sample payload.
DemoBits(n) == [i \in 1..n |-> DemoBit(i)]

PayloadLens ==
    {n \in 0..(MaxChunks * 6 * max_payload_char + MaxDelta) :
        \E c \in 0..MaxChunks :
            /\ n >= c * 6 * max_payload_char - MaxDelta
            /\ n <= c * 6 * max_payload_char + MaxDelta}

FreshPayloads == {DemoBits(n) : n \in PayloadLens}

\* ------------------------------------------------------------------------
\* asm_payload_bs_to_abb_sentences
\* ------------------------------------------------------------------------
\* The fill-bit count without the outer "% 6": 6 for an aligned payload.
FillBits_NoOuterMod(n_bits) == 6 - (n_bits % 6)

\* n_fill_bits = int((6 - (n_bits % 6)) % 6)
FillBits(n_bits) == (6 - (n_bits % 6)) % 6

\* bs += BitStream(n_fill_bits): BitStream.__iadd__ appends in place, so
\* this is also the caller's object after the call.
PaddedBs(bs) == bs \o BitStream(FillBits(Len(bs)))

\* Every BitStream value a call can be given: a new one, or one that an
\* earlier call has padded.
Payloads == FreshPayloads \cup {PaddedBs(bs) : bs \in FreshPayloads}

\* payload = iec_ascii_6b_to_8b(bs) after the padding (lines 184-186),
\* tabulated over the BitStream values.
ArmouredText == [bs \in Payloads |-> iec_ascii_6b_to_8b(PaddedBs(bs))]

\* n_fill_bits stamped on sentence i_sentence of n_sentences (line 211).
StampedFillBits(n_fill_bits, i_sentence, n_sentences) == n_fill_bits

\* An offset advanced by one character too few.
NextOffset_Short(payload_offset) == payload_offset + max_payload_char - 1

\* payload_offset += max_payload_char (line 218)
NextOffset(payload_offset) == payload_offset + max_payload_char

\* The sentence count rounded down instead of up.
NSentences_Floor(payload) == Len(payload) \div max_payload_char

\* n_sentences = ceil(len(payload) / max_payload_char) (line 196)
NSentences(payload) == ceil(Len(payload), max_payload_char)

RECURSIVE SplitLoop(_, _, _, _, _, _)
\* The while loop of lines 199-220; a is the record of the values that do
\* not change in the loop.
SplitLoop(a, payload, n_sentences, i_sentence, payload_offset, sentences) ==
    IF i_sentence <= n_sentences
    THEN SplitLoop(a, payload, n_sentences, i_sentence + 1,
                   NextOffset(payload_offset),
                   sentences \o
                   <<ABBSentence(
                       n_sentences, i_sentence, a.sequential_id, a.source_id,
                       a.channel, a.transmission_format,
                       Slice(payload, payload_offset,
                             payload_offset + max_payload_char),
                       StampedFillBits(a.n_fill_bits, i_sentence, n_sentences),
                       a.talker_id, a.asm_id)>>)
    ELSE sentences

\* The list returned by asm_payload_bs_to_abb_sentences.
asm_payload_bs_to_abb_sentences(bs, sequential_id, source_id, channel, transmission_format, talker_id, asm_id) ==
    LET n_bits == Len(bs)
        n_fill_bits == FillBits(n_bits)
        payload == ArmouredText[bs]
        n_sentences == NSentences(payload)
    IN  SplitLoop([sequential_id |-> sequential_id, source_id |-> source_id,
                   channel |-> channel,
                   transmission_format |-> transmission_format,
                   n_fill_bits |-> n_fill_bits,
                   talker_id |-> talker_id, asm_id |-> asm_id],
                  payload, n_sentences, 1, 0, <<>>)

\* ------------------------------------------------------------------------
\* Call arguments
\* ------------------------------------------------------------------------
\* The arguments of the demo's call (lines 325-327).
DemoArgs == [source_id |-> 111111111, channel |-> 1, transmission_format |-> 0]

\* Argument values of generate_abb: the demo's, and a null source id with
\* values outside the documented ranges (channel 0-3, format 0-9).
CallArgs ==
    {DemoArgs,
     [source_id |-> EmptySourceId, channel |-> 4, transmission_format |-> 10]}

\* "AI" and "VD"
TalkerIds == {DefaultTalkerId, <<86, 68>>}

\* The concurrent callers send a one-sentence or a two-sentence message.
ConcPayloads == {DemoBits(1), DemoBits(6 * max_payload_char + 1)}

Threads == {1, 2}

\* ------------------------------------------------------------------------
\* State
\* ------------------------------------------------------------------------
VARIABLES
    talker_id,          \* SentenceGenerator.talker_id
    abb_sequential_id,  \* SentenceGenerator.abb_sequential_id
    asm_payload_bs,     \* the BitStream object the caller passed last
    sentence_groups,    \* the value generate_abb returned last
    emitted,            \* the sentence text produced last (lines 329-331)
    last_call,          \* history: the inputs of the last generate_abb call
    n_multi,            \* history: calls that returned more than one sentence
    pc,                 \* per thread: position inside generate_abb
    t_sentences,        \* per thread: the local abb_sentences
    t_read,             \* per thread: self.abb_sequential_id as read at line 289
    overlapped,         \* per thread: another thread ran during its call
    msg_log,            \* history: the last two multi-sentence messages returned
    collided,           \* history: two such messages in a row shared an id
    n_calls             \* history: calls started by the threads

genvars == <<talker_id, abb_sequential_id>>
seqvars == <<asm_payload_bs, emitted, last_call, n_multi>>
concvars == <<pc, t_sentences, t_read, overlapped, msg_log, collided, n_calls>>
vars == <<talker_id, abb_sequential_id, asm_payload_bs, sentence_groups, emitted, last_call, n_multi, pc, t_sentences, t_read, overlapped, msg_log, collided, n_calls>>

NoCall == [made |-> FALSE, bs |-> <<>>, sequential_id |-> 0, reused |-> FALSE]

\* SentenceGenerator.__init__, for any talker_id; no call made yet.
Init ==
    /\ talker_id \in TalkerIds
    /\ abb_sequential_id = 0
    /\ asm_payload_bs = <<>>
    /\ sentence_groups = <<>>
    /\ emitted = <<>>
    /\ last_call = NoCall
    /\ n_multi = 0
    /\ pc = [t \in Threads |-> "idle"]
    /\ t_sentences = [t \in Threads |-> <<>>]
    /\ t_read = [t \in Threads |-> 0]
    /\ overlapped = [t \in Threads |-> FALSE]
    /\ msg_log = <<>>
    /\ collided = FALSE
    /\ n_calls = 0

\* ------------------------------------------------------------------------
\* class SentenceGenerator
\* ------------------------------------------------------------------------
\* The talker_id the sentences are built with: generate_abb passes none to
\* asm_payload_bs_to_abb_sentences (lines 280-285), whose default applies.
PassedTalkerId(self_talker_id) == DefaultTalkerId

\* The Sequential ID advanced after every call, whatever its length.
AdvancedId_EveryCall(sequential_id, abb_sentences) ==
    (sequential_id + 1) % SeqIdMod

\* Lines 288-289: the Sequential ID after a call that returned abb_sentences.
AdvancedId(sequential_id, abb_sentences) ==
    IF Len(abb_sentences) > 1
    THEN (sequential_id + 1) % SeqIdMod
    ELSE sequential_id

\* The list built with a fixed Sequential ID instead of the generator's.
BuildGroup_FixedId(bs, a) ==
    asm_payload_bs_to_abb_sentences(bs, 0, a.source_id, a.channel, a.transmission_format, PassedTalkerId(talker_id), DefaultAsmId)

\* Lines 280-285: the list built by one generate_abb call on payload bs.
BuildGroup(bs, a) ==
    asm_payload_bs_to_abb_sentences(bs, abb_sequential_id, a.source_id, a.channel, a.transmission_format, PassedTalkerId(talker_id), DefaultAsmId)

\* SentenceGenerator.generate_abb, run as a whole, on the BitStream object
\* bs; reuse tells whether bs is the object of the previous call.
generate_abb(bs, a, reuse) ==
    /\ n_multi < MaxMulti
    /\ LET abb_sentences == BuildGroup(bs, a)
       IN  /\ asm_payload_bs' = PaddedBs(bs)
           /\ abb_sequential_id' = AdvancedId(abb_sequential_id, abb_sentences)
           /\ sentence_groups' = <<abb_sentences>>
           /\ n_multi' = IF Len(abb_sentences) > 1 THEN n_multi + 1 ELSE n_multi
           /\ last_call' = [made |-> TRUE, bs |-> bs,
                            sequential_id |-> abb_sequential_id,
                            reused |-> reuse]
    /\ emitted' = <<>>
    /\ UNCHANGED <<talker_id, concvars>>

\* A call on a newly made BitStream.
GenerateFresh == \E bs \in FreshPayloads, a \in CallArgs : generate_abb(bs, a, FALSE)

\* A second call on the BitStream object of the previous call.
GenerateAgain ==
    /\ last_call.made
    /\ \E a \in CallArgs : generate_abb(asm_payload_bs, a, TRUE)

\* Lines 329-331: the text of one returned sentence is produced.
EmitString ==
    /\ sentence_groups # <<>>
    /\ \E i \in 1..Len(sentence_groups[1]) :
          emitted' = <<[sentence |-> sentence_groups[1][i],
                        text |-> string(sentence_groups[1][i])]>>
    /\ UNCHANGED <<genvars, asm_payload_bs, sentence_groups, last_call, n_multi, concvars>>

Next == GenerateFresh \/ GenerateAgain \/ EmitString

Spec == Init /\ [][Next]_vars

\* ------------------------------------------------------------------------
\* generate_abb called by two threads that share one SentenceGenerator
\* ------------------------------------------------------------------------
\* Lines 280-285 in thread t: self.abb_sequential_id is read and the list is
\* built from a BitStream of the thread's own.  A call overlaps when another
\* call is in progress at any time between its start and its return.
ThreadCall(t) ==
    /\ pc[t] = "idle"
    /\ n_calls < MaxConcCalls
    /\ \E bs \in ConcPayloads :
          t_sentences' = [t_sentences EXCEPT ![t] = BuildGroup(bs, DemoArgs)]
    /\ pc' = [pc EXCEPT ![t] = "built"]
    /\ n_calls' = n_calls + 1
    /\ overlapped' = [u \in Threads |->
                        IF u = t THEN \E v \in Threads \ {t} : pc[v] # "idle"
                        ELSE IF pc[u] # "idle" THEN TRUE
                        ELSE overlapped[u]]
    /\ UNCHANGED <<genvars, seqvars, sentence_groups, t_read, msg_log, collided>>

\* Line 288 in thread t, and for a multi-sentence list the read of
\* self.abb_sequential_id on the right-hand side of line 289; a
\* single-sentence list is returned (line 291).
ThreadTest(t) ==
    /\ pc[t] = "built"
    /\ IF Len(t_sentences[t]) > 1
       THEN /\ t_read' = [t_read EXCEPT ![t] = abb_sequential_id]
            /\ pc' = [pc EXCEPT ![t] = "store"]
            /\ UNCHANGED <<sentence_groups, t_sentences>>
       ELSE /\ sentence_groups' = <<t_sentences[t]>>
            /\ t_sentences' = [t_sentences EXCEPT ![t] = <<>>]
            /\ pc' = [pc EXCEPT ![t] = "idle"]
            /\ UNCHANGED t_read
    /\ UNCHANGED <<genvars, seqvars, overlapped, msg_log, collided, n_calls>>

\* The store of line 289 in thread t, and the return of line 291.
ThreadStore(t) ==
    /\ pc[t] = "store"
    /\ abb_sequential_id' = AdvancedId(t_read[t], t_sentences[t])
    /\ sentence_groups' = <<t_sentences[t]>>
    /\ LET msg == [sequential_id |-> t_sentences[t][1].sequential_id,
                   atomic |-> ~overlapped[t]]
       IN  /\ msg_log' = IF msg_log = <<>> THEN <<msg>>
                         ELSE <<msg_log[Len(msg_log)], msg>>
           /\ collided' = (collided \/
                            (/\ msg_log # <<>>
                             /\ msg_log[Len(msg_log)].sequential_id = msg.sequential_id))
    /\ t_sentences' = [t_sentences EXCEPT ![t] = <<>>]
    /\ pc' = [pc EXCEPT ![t] = "idle"]
    /\ UNCHANGED <<talker_id, seqvars, t_read, overlapped, n_calls>>

NextConc == \E t \in Threads : ThreadCall(t) \/ ThreadTest(t) \/ ThreadStore(t)

SpecConc == Init /\ [][NextConc]_vars

\* ------------------------------------------------------------------------
\* Properties
\* ------------------------------------------------------------------------
\* The list returned by the last call.
Group == sentence_groups[1]

\* The armoured text of the last call: its payload as given, padded and
\* armoured.
CallText == iec_ascii_6b_to_8b(PaddedBs(last_call.bs))

RECURSIVE ConcatChunks(_, _)
\* The payload fields of g[i], g[i+1], .. joined in list order.
ConcatChunks(g, i) ==
    IF i > Len(g) THEN <<>> ELSE g[i].payload \o ConcatChunks(g, i + 1)

\* C1: with generate_abb calls made one after the other, the Sequential ID
\* counter is always the number of calls so far that returned more than
\* one sentence, modulo 10, and so always in 0..9.
C1_CounterCountsMultiSentenceCalls ==
    /\ abb_sequential_id \in 0..9
    /\ abb_sequential_id = n_multi % 10

\* C1 witness: the eleventh multi-sentence call has wrapped the counter
\* round to 1.
C1_Witness ==
    /\ n_multi = 11
    /\ abb_sequential_id = 1
    /\ last_call.made
    /\ Len(Group) > 1

\* C2: the returned list has ceil(len(text) / 42) records; each carries
\* that count, the counter's value before the call, and its own 1-based
\* position in the list.
C2_GroupNumbering ==
    last_call.made =>
        LET n == Len(Group)
        IN  /\ n * 42 >= Len(CallText)
            /\ (n - 1) * 42 < Len(CallText)
            /\ \A i \in 1..n :
                  /\ Group[i].n_sentences = n
                  /\ Group[i].sequential_id = last_call.sequential_id
                  /\ Group[i].i_sentence = i

\* C2 witness: a three-sentence message stamped with a Sequential ID that
\* earlier messages have advanced.
C2_Witness ==
    /\ last_call.made
    /\ Len(Group) = 3
    /\ Group[3].i_sentence = 3
    /\ Group[1].sequential_id = 4

\* C3: every chunk but the last has 42 characters, the last has 1 to 42,
\* and the chunks joined in order are the armoured text.
C3_ChunksPartitionText ==
    last_call.made =>
        /\ \A i \in 1..(Len(Group) - 1) : Len(Group[i].payload) = 42
        /\ Len(Group) > 0 => Len(Group[Len(Group)].payload) \in 1..42
        /\ ConcatChunks(Group, 1) = CallText

\* C3 witness: three chunks, the last one shorter than 42 characters.
C3_Witness ==
    /\ last_call.made
    /\ Len(Group) = 3
    /\ Len(Group[3].payload) = 1
    /\ Len(CallText) = 85

\* C4 (as claimed): every record before the last one of a multi-sentence
\* list has n_fill_bits = 0.
C4_NonFinalFillBitsZero ==
    last_call.made =>
        \A i \in 1..Len(Group) :
            Group[i].i_sentence < Group[i].n_sentences => Group[i].n_fill_bits = 0

\* C5: for a payload of L bits the last record's n_fill_bits is
\* (6 - L mod 6) mod 6, a value in 0..5 that makes L + n_fill_bits a
\* multiple of 6, and the armoured text has (L + n_fill_bits) / 6
\* characters.  An empty payload has no record and an empty text.
C5_FinalFillBits ==
    last_call.made =>
        LET L == Len(last_call.bs)
            fill == (6 - (L % 6)) % 6
        IN  /\ fill \in 0..5
            /\ (L + fill) % 6 = 0
            /\ 6 * Len(CallText) = L + fill
            /\ Len(Group) > 0 => Group[Len(Group)].n_fill_bits = fill

\* C5 witness: a payload one bit longer than a full chunk (5 fill bits).
C5_Witness ==
    /\ last_call.made
    /\ Len(last_call.bs) = 6 * 42 + 1
    /\ Len(Group) = 2
    /\ Group[2].n_fill_bits = 5

\* C6 (as claimed): a call on an empty payload returns one sentence with
\* n_sentences = 1, i_sentence = 1, an empty payload field and no fill
\* bits, and leaves the counter as it was.
C6_EmptyPayloadOneSentence ==
    (last_call.made /\ last_call.bs = <<>>) =>
        /\ Len(Group) = 1
        /\ Group[1].n_sentences = 1
        /\ Group[1].i_sentence = 1
        /\ Group[1].payload = <<>>
        /\ Group[1].n_fill_bits = 0
        /\ abb_sequential_id = last_call.sequential_id

\* The documented ranges of the numeric fields (lines 40-66).
FieldsInRange(r) ==
    /\ r.n_sentences \in 1..99
    /\ r.i_sentence \in 1..99
    /\ r.sequential_id \in 0..9
    /\ r.channel \in 0..3
    /\ r.transmission_format \in 0..9
    /\ r.n_fill_bits \in 0..5

\* C7 (as claimed): no sentence text is produced from a record that has a
\* field outside its range.
C7_NoTextForOutOfRangeField ==
    \A k \in 1..Len(emitted) : FieldsInRange(emitted[k].sentence)

\* The chunks and fill-bit counts of two lists agree.
SameChunksAndFill(g, h) ==
    /\ Len(g) = Len(h)
    /\ \A i \in 1..Len(g) :
          /\ g[i].payload = h[i].payload
          /\ g[i].n_fill_bits = h[i].n_fill_bits

\* C8 (as claimed): a generate_abb call leaves the caller's BitStream as it
\* was given, and a second call on the same object returns the chunks and
\* fill-bit counts of the first.
C8_InputLeftUnchanged ==
    [][(last_call'.made /\ emitted' = <<>>) =>
          /\ asm_payload_bs' = last_call'.bs
          /\ (last_call'.reused =>
                SameChunksAndFill(sentence_groups[1], sentence_groups'[1]))]_vars

\* C9: of two multi-sentence messages returned one after the other, each by
\* a call that no other call overlapped, the second carries the
\* Sequential ID of the first plus one, modulo 10.
C9_AtomicCallsGetSuccessiveIds ==
    (/\ Len(msg_log) = 2
     /\ msg_log[1].atomic
     /\ msg_log[2].atomic) =>
        /\ msg_log[2].sequential_id = (msg_log[1].sequential_id + 1) % 10
        /\ msg_log[2].sequential_id # msg_log[1].sequential_id

\* C9 witness: two overlapping calls have returned multi-sentence messages
\* with one Sequential ID, and later two calls that nothing overlapped
\* have returned messages with successive ids.
C9_Witness ==
    /\ collided
    /\ Len(msg_log) = 2
    /\ msg_log[1].atomic
    /\ msg_log[2].atomic
    /\ msg_log[2].sequential_id = (msg_log[1].sequential_id + 1) % 10

\* C10 (as claimed): every returned sentence carries the talker_id the
\* generator was constructed with.
C10_GeneratorTalkerIdUsed ==
    last_call.made =>
        \A i \in 1..Len(Group) : Group[i].talker_id = talker_id

====
